---- MODULE Spec2Model ----
(***************************************************************************)
(* The LLM invocation core of langchainjs: BaseLLM.generate with the       *)
(* module-level cache (llms/base.ts) and the OpenAI provider adapter       *)
(* (llms/openai.ts: batching, retry, streaming reconstruction).            *)
(*                                                                         *)
(* JavaScript strings are sequences of one-character strings, ordered by   *)
(* UTF-16 code unit.  An optional value is a sequence of length at most    *)
(* one: None is undefined, Some(x) is x.                                   *)
(***************************************************************************)
EXTENDS Integers, Sequences, FiniteSets, TLC

VARIABLES made, inst, cacheStore, queue, running, call

vars == <<made, inst, cacheStore, queue, running, call>>

None == <<>>
Some(x) == <<x>>

Range(s) == {s[k] : k \in DOMAIN s}

Min(a, b) == IF a < b THEN a ELSE b

Max(a, b) == IF a < b THEN b ELSE a

(***************************************************************************)
(* Strings                                                                 *)
(***************************************************************************)

\* The UTF-16 code units of the characters the parameter signature is made of.
CodeTable ==
  << <<" ", 32>>, <<",", 44>>, <<"-", 45>>, <<".", 46>>,
     <<"0", 48>>, <<"1", 49>>, <<"2", 50>>, <<"3", 51>>, <<"4", 52>>,
     <<"5", 53>>, <<"6", 54>>, <<"7", 55>>, <<"8", 56>>, <<"9", 57>>,
     <<"K", 75>>, <<"O", 79>>, <<"[", 91>>, <<"]", 93>>, <<"_", 95>>,
     <<"a", 97>>, <<"b", 98>>, <<"c", 99>>, <<"d", 100>>, <<"e", 101>>,
     <<"f", 102>>, <<"g", 103>>, <<"h", 104>>, <<"i", 105>>, <<"j", 106>>,
     <<"k", 107>>, <<"l", 108>>, <<"m", 109>>, <<"n", 110>>, <<"o", 111>>,
     <<"p", 112>>, <<"q", 113>>, <<"r", 114>>, <<"s", 115>>, <<"t", 116>>,
     <<"u", 117>>, <<"v", 118>>, <<"w", 119>>, <<"x", 120>>, <<"y", 121>>,
     <<"z", 122>> >>

CodeUnit == [ch \in {e[1] : e \in Range(CodeTable)} |->
               (CHOOSE e \in Range(CodeTable) : e[1] = ch)[2]]

\* a < b in JavaScript's string order (code unit by code unit, a proper
\* prefix first), which is what Array.prototype.sort() compares by default.
RECURSIVE StrLessFrom(_, _, _)
StrLessFrom(a, b, k) ==
  IF k > Len(b) THEN FALSE
  ELSE IF k > Len(a) THEN TRUE
  ELSE IF a[k] = b[k] THEN StrLessFrom(a, b, k + 1)
  ELSE CodeUnit[a[k]] < CodeUnit[b[k]]

StrLess(a, b) == StrLessFrom(a, b, 1)

\* Array.prototype.join: the strings of ss with sep between them.
RECURSIVE Join(_, _)
Join(ss, sep) ==
  IF ss = <<>> THEN <<>>
  ELSE IF Len(ss) = 1 THEN ss[1]
  ELSE ss[1] \o sep \o Join(Tail(ss), sep)

Digits == <<"0", "1", "2", "3", "4", "5", "6", "7", "8", "9">>

\* Number.prototype.toString of a non-negative integer.
RECURSIVE NumStr(_)
NumStr(k) ==
  IF k < 10 THEN <<Digits[k + 1]>>
  ELSE NumStr(k \div 10) \o <<Digits[(k % 10) + 1]>>

\* A number with one decimal place, held in tenths: 7 is 0.7, 10 is 1.
DecStr(tenths) ==
  IF tenths % 10 = 0 THEN NumStr(tenths \div 10)
  ELSE NumStr(tenths \div 10) \o <<".">> \o NumStr(tenths % 10)

(***************************************************************************)
(* JavaScript values and objects                                           *)
(*                                                                         *)
(* A value is tagged with its type; an object is the sequence of its       *)
(* <<key, value>> entries in insertion order, which is the order           *)
(* Object.entries lists them in.                                           *)
(***************************************************************************)

Undefined == [t |-> "undefined"]
Num(k) == [t |-> "number", v |-> k]
Dec(tenths) == [t |-> "decimal", v |-> tenths]
Bool(b) == [t |-> "boolean", v |-> b]
Str(s) == [t |-> "string", v |-> s]
Arr(ss) == [t |-> "array", v |-> ss]
Obj == [t |-> "object"]

\* An optional list of strings as a JavaScript value: undefined when absent.
OptArr(opt) == IF opt = None THEN Undefined ELSE Arr(opt[1])

\* String(x) as Array.prototype.join applies it to an element: undefined is
\* the empty string, an array of strings is its elements joined with commas,
\* a plain object is "[object Object]".
ToStr(x) ==
  CASE x.t = "undefined" -> <<>>
    [] x.t = "number" -> NumStr(x.v)
    [] x.t = "decimal" -> DecStr(x.v)
    [] x.t = "boolean" -> IF x.v THEN <<"t", "r", "u", "e">>
                          ELSE <<"f", "a", "l", "s", "e">>
    [] x.t = "string" -> x.v
    [] x.t = "array" -> Join(x.v, <<",">>)
    [] x.t = "object" -> <<"[", "o", "b", "j", "e", "c", "t", " ",
                           "O", "b", "j", "e", "c", "t", "]">>

\* obj[k] = v: an existing key keeps its place, a new key goes last.
ObjSet(obj, k, v) ==
  IF \E j \in DOMAIN obj : obj[j][1] = k
  THEN [j \in DOMAIN obj |-> IF obj[j][1] = k THEN <<k, v>> ELSE obj[j]]
  ELSE Append(obj, <<k, v>>)

\* {...a, ...b}
RECURSIVE Spread(_, _)
Spread(a, b) ==
  IF b = <<>> THEN a ELSE Spread(ObjSet(a, b[1][1], b[1][2]), Tail(b))

\* String([k, v]): the entry as sort() and the template literal see it.
EntryStr(e) == e[1] \o <<",">> \o ToStr(e[2])

\* The string e put into the sorted list es, after the strings that are not
\* greater.
RECURSIVE SortInsert(_, _)
SortInsert(es, e) ==
  IF es = <<>> THEN <<e>>
  ELSE IF StrLess(e, es[1]) THEN <<e>> \o es
  ELSE <<es[1]>> \o SortInsert(Tail(es), e)

RECURSIVE SortStrings(_)
SortStrings(es) ==
  IF es = <<>> THEN <<>>
  ELSE SortInsert(SortStrings(SubSeq(es, 1, Len(es) - 1)), es[Len(es)])

\* `${entries.sort()}`: sort() without a comparator orders the entries by
\* String(entry), and the template literal joins String(entry) with commas.
SortedToString(entries) ==
  Join(SortStrings([j \in DOMAIN entries |-> EntryStr(entries[j])]), <<",">>)

(***************************************************************************)
(* OpenAI: parameters                                                      *)
(***************************************************************************)

\* invocationParams(): the request parameters of instance o.
invocationParams(o) ==
  Spread(
    << << <<"m", "o", "d", "e", "l">>, Str(o.modelName) >>,
       << <<"t", "e", "m", "p", "e", "r", "a", "t", "u", "r", "e">>,
          Dec(o.temperature) >>,
       << <<"m", "a", "x", "_", "t", "o", "k", "e", "n", "s">>,
          Num(o.maxTokens) >>,
       << <<"t", "o", "p", "_", "p">>, Dec(o.topP) >>,
       << <<"f", "r", "e", "q", "u", "e", "n", "c", "y", "_",
            "p", "e", "n", "a", "l", "t", "y">>, Dec(o.frequencyPenalty) >>,
       << <<"p", "r", "e", "s", "e", "n", "c", "e", "_",
            "p", "e", "n", "a", "l", "t", "y">>, Dec(o.presencePenalty) >>,
       << <<"n">>, Num(o.n) >>,
       << <<"b", "e", "s", "t", "_", "o", "f">>, Num(o.bestOf) >>,
       << <<"l", "o", "g", "i", "t", "_", "b", "i", "a", "s">>,
          IF o.logitBias THEN Obj ELSE Undefined >>,
       << <<"s", "t", "o", "p">>, OptArr(o.stop) >>,
       << <<"s", "t", "r", "e", "a", "m">>, Bool(o.streaming) >> >>,
    o.modelKwargs)

\* _identifyingParams(): model_name, the invocation parameters, the client
\* configuration.
_identifyingParams(o) ==
  Spread(
    Spread(<< << <<"m", "o", "d", "e", "l", "_", "n", "a", "m", "e">>,
                 Str(o.modelName) >> >>,
           invocationParams(o)),
    << << <<"a", "p", "i", "K", "e", "y">>, Str(o.apiKey) >> >>)

_llmType == <<"o", "p", "e", "n", "a", "i">>

\* BaseLLM.serialize(): the identifying parameters and _type.
serialize(o) ==
  Spread(_identifyingParams(o), << << <<"_", "t", "y", "p", "e">>, Str(_llmType) >> >>)

\* The parameter signature generate() looks the cache up under:
\*   params = this.serialize(); params.stop = stop;
\*   `${Object.entries(params).sort()}`
llmStringKey(o, stop) ==
  SortedToString(ObjSet(serialize(o), <<"s", "t", "o", "p">>, OptArr(stop)))

(***************************************************************************)
(* OpenAI: construction                                                    *)
(***************************************************************************)

\* The constructor's `fields` argument with nothing given.
NoFields ==
  [temperature |-> None, n |-> None, bestOf |-> None, stop |-> None,
   streaming |-> None, modelKwargs |-> None, batchSize |-> None,
   maxRetries |-> None, cache |-> None, concurrency |-> None,
   callbackManager |-> None]

\* fields?.x ?? dflt
OrElse(opt, dflt) == IF opt = None THEN dflt ELSE opt[1]

\* A callback manager: each hook either returns or throws when invoked.
\* getCallbackManager() is the default, whose hooks do nothing.
getCallbackManager ==
  [handleStart |-> "returns", handleEnd |-> "returns", handleError |-> "returns"]

\* new OpenAI(fields): the instance's fields after the constructor's
\* assignments (decimals in tenths; concurrency None is Infinity).
OpenAI(fields) ==
  [class |-> "OpenAI",
   callbackManager |-> OrElse(fields.callbackManager, getCallbackManager),
   modelName |-> <<"t", "e", "x", "t", "-", "d", "a", "v", "i", "n", "c", "i",
                   "-", "0", "0", "3">>,
   modelKwargs |-> OrElse(fields.modelKwargs, <<>>),
   batchSize |-> OrElse(fields.batchSize, 20),
   maxRetries |-> OrElse(fields.maxRetries, 6),
   temperature |-> OrElse(fields.temperature, 7),
   maxTokens |-> 256,
   topP |-> 10,
   frequencyPenalty |-> 0,
   presencePenalty |-> 0,
   n |-> OrElse(fields.n, 1),
   bestOf |-> OrElse(fields.bestOf, 1),
   logitBias |-> FALSE,
   stop |-> fields.stop,
   streaming |-> OrElse(fields.streaming, FALSE),
   apiKey |-> <<"s", "k">>,
   cache |-> fields.cache,
   concurrency |-> fields.concurrency]

\* new PromptLayerOpenAI(fields), the PromptLayer API key being configured:
\* an OpenAI instance whose completionWithRetry also reports each
\* non-streamed request to the tracking service.
PromptLayerOpenAI(fields) == [OpenAI(fields) EXCEPT !.class = "PromptLayerOpenAI"]

\* A constructor that forgets the check of bestOf.
ConstructorThrows_nOnly(fields) ==
  OrElse(fields.streaming, FALSE) /\ OrElse(fields.n, 1) > 1

\* An instance of a subclass of LLM, which implements only _call: what the
\* BaseLLM constructor sets.
SimpleLLM(fields) ==
  [class |-> "LLM",
   callbackManager |-> OrElse(fields.callbackManager, getCallbackManager),
   cache |-> fields.cache,
   concurrency |-> fields.concurrency]

\* The constructor throws "Cannot stream results when n > 1" or
\* "... when bestOf > 1".
ConstructorThrows(fields) ==
  LET o == OpenAI(fields)
  IN (o.streaming /\ o.n > 1) \/ (o.streaming /\ o.bestOf > 1)

\* The message of the error the constructor throws.
ConstructorError(fields) ==
  IF OpenAI(fields).n > 1 THEN "Cannot stream results when n > 1"
  ELSE "Cannot stream results when bestOf > 1"

\* obj[k]: the value of the entry, nothing when there is no such key or its
\* value is undefined.
ObjGet(obj, k) ==
  IF \E j \in DOMAIN obj : obj[j][1] = k /\ obj[j][2].t # "undefined"
  THEN Some((obj[CHOOSE j \in DOMAIN obj : obj[j][1] = k])[2].v)
  ELSE None

\* const { _type, ...rest } = data; new Cls(rest): the constructor reads
\* from rest the fields it knows by their own names.
DeserializedFields(data) ==
  [temperature |-> ObjGet(data, <<"t", "e", "m", "p", "e", "r", "a", "t", "u", "r", "e">>),
   n |-> ObjGet(data, <<"n">>),
   bestOf |-> ObjGet(data, <<"b", "e", "s", "t", "O", "f">>),
   stop |-> ObjGet(data, <<"s", "t", "o", "p">>),
   streaming |-> ObjGet(data, <<"s", "t", "r", "e", "a", "m", "i", "n", "g">>),
   modelKwargs |-> ObjGet(data, <<"m", "o", "d", "e", "l", "K", "w", "a", "r", "g", "s">>),
   batchSize |-> ObjGet(data, <<"b", "a", "t", "c", "h", "S", "i", "z", "e">>),
   maxRetries |-> ObjGet(data, <<"m", "a", "x", "R", "e", "t", "r", "i", "e", "s">>),
   cache |-> ObjGet(data, <<"c", "a", "c", "h", "e">>),
   concurrency |-> ObjGet(data, <<"c", "o", "n", "c", "u", "r", "r", "e", "n", "c", "y">>),
   callbackManager |-> ObjGet(data, <<"c", "a", "l", "l", "b", "a", "c", "k",
                                      "M", "a", "n", "a", "g", "e", "r">>)]

(***************************************************************************)
(* Bounds and input sets                                                   *)
(***************************************************************************)

\* generate calls in one behaviour
MaxCalls == 3
\* generate calls on the two instances that share the cache
MaxOverlap == 2
\* prompts in one generate call
MaxPrompts == 2
\* the largest finite concurrency tried
MaxConcurrency == 2
\* the largest maxRetries tried
MaxRetriesTried == 3
\* the largest n and bestOf an instance is constructed with
MaxChoices == 2

Inst == {"A", "B"}
CallIds == 1 .. MaxCalls
Prompts == {"p1", "p2"}
\* The provider is not deterministic: the same prompt may be completed as
\* either variant.
Variants == {"x", "y"}
NetworkErrors == {"ETIMEDOUT", "ECONNRESET"}
StopError == "Stop found in input and default params"
TrackError == "fetch failed"

\* Stop-sequence lists: ["x"], ["y"], ["x", "y"] and ["x,y"].
StopX == << <<"x">> >>
StopY == << <<"y">> >>
StopXY == << <<"x">>, <<"y">> >>
StopXcommaY == << <<"x", ",", "y">> >>

PromptLists(len) == UNION {[1 .. k -> Prompts] : k \in 0 .. len}

(***************************************************************************)
(* The cache store (cache.ts, InMemoryCache): entries keyed by the prompt  *)
(* and the parameter signature.                                            *)
(***************************************************************************)

\* cache.lookup(prompt, llmKey): the stored generation list, or null.
lookup(store, prompt, llmKey) ==
  IF \E e \in store : e.prompt = prompt /\ e.llmKey = llmKey
  THEN Some((CHOOSE e \in store : e.prompt = prompt /\ e.llmKey = llmKey).value)
  ELSE None

\* cache.update(prompt, llmKey, value)
update(store, prompt, llmKey, value) ==
  {e \in store : ~(e.prompt = prompt /\ e.llmKey = llmKey)}
    \cup {[prompt |-> prompt, llmKey |-> llmKey, value |-> value]}

(***************************************************************************)
(* The provider (the OpenAI completion endpoint), as a stub                *)
(***************************************************************************)

\* The text the provider completes prompt p with, as variant v.
Completion(p, v) == <<p, "-", v>>

\* createCompletion's data.choices for a non-streamed request: n choices per
\* prompt, the prompts in request order.
ProviderChoices(ps, n, v) ==
  [idx \in 1 .. Len(ps) * n |->
     LET p == ps[((idx - 1) \div n) + 1]
     IN [text |-> Some(Completion(p, v)),
         finish_reason |-> Some("stop"),
         logprobs |-> Some(Completion(p, v))]]

\* data.usage of a non-streamed response.
ProviderUsage(ps, n) ==
  [prompt_tokens |-> Some(Len(ps)),
   completion_tokens |-> Some(3 * Len(ps) * n),
   total_tokens |-> Some(Len(ps) + 3 * Len(ps) * n)]

\* A streamed response carries no usage.
NoUsage == [prompt_tokens |-> None, completion_tokens |-> None, total_tokens |-> None]

\* What the provider has still to stream for each prompt of the request.
ProviderStream(ps, v) == [k \in DOMAIN ps |-> Completion(ps[k], v)]

\* One delta event's choices[0]: the next len tokens of a prompt's text; the
\* finish reason comes with the last of them.
DeltaPart(rest, len) ==
  [text |-> Some(SubSeq(rest, 1, len)),
   finish_reason |-> IF len = Len(rest) THEN Some("stop") ELSE None,
   logprobs |-> Some(SubSeq(rest, 1, len))]

(***************************************************************************)
(* OpenAI._generate, step by step                                          *)
(***************************************************************************)

\* util chunkArray: element index goes to chunk floor(index / chunkSize).
chunkArray(arr, chunkSize) ==
  LET nChunks == IF arr = <<>> THEN 0 ELSE ((Len(arr) - 1) \div chunkSize) + 1
      Chunk(j) ==
        LET idxs == SelectSeq([k \in DOMAIN arr |-> k - 1],
                              LAMBDA index : index \div chunkSize = j)
        IN [m \in DOMAIN idxs |-> arr[idxs[m] + 1]]
  IN [j \in 1 .. nChunks |-> Chunk(j - 1)]

\* this.stop && stop
StopConflict(o, stop) == o.stop # None /\ stop # None

\* params.stop = stop ?? params.stop
EffectiveStop(o, stop) == IF stop # None THEN stop ELSE o.stop

EmptyChoice == [text |-> None, finish_reason |-> None, logprobs |-> None]

\* A slip in the parser callback: the fragment replaces the text.
AppendPart_overwrite(choice, part) ==
  [text |-> part.text, finish_reason |-> part.finish_reason,
   logprobs |-> part.logprobs]

\* The parser callback on a delta event whose choices[0] is part.
AppendPart(choice, part) ==
  [text |-> Some(OrElse(choice.text, <<>>) \o OrElse(part.text, <<>>)),
   finish_reason |-> part.finish_reason,
   logprobs |-> part.logprobs]

NoTokenUsage == [completionTokens |-> None, promptTokens |-> None, totalTokens |-> None]

\* if (x) { tokenUsage.f = (tokenUsage.f ?? 0) + x }
AddTokens(sum, x) ==
  IF x = None \/ x[1] = 0 THEN sum ELSE Some(OrElse(sum, 0) + x[1])

AddUsage(tokenUsage, usage) ==
  [completionTokens |-> AddTokens(tokenUsage.completionTokens, usage.completion_tokens),
   promptTokens |-> AddTokens(tokenUsage.promptTokens, usage.prompt_tokens),
   totalTokens |-> AddTokens(tokenUsage.totalTokens, usage.total_tokens)]

\* chunkArray(choices, this.n).map(promptChoices => promptChoices.map(...))
Generations(choices, n) ==
  LET groups == chunkArray(choices, n)
  IN [g \in DOMAIN groups |->
        [j \in DOMAIN groups[g] |->
           [text |-> OrElse(groups[g][j].text, <<>>),
            generationInfo |-> [finishReason |-> groups[g][j].finish_reason,
                                logprobs |-> groups[g][j].logprobs]]]]

\* maxRetries read as the retries after a first attempt.
NumOfAttempts_retriesAfterFirst(o) == o.maxRetries + 1

\* backOff's numOfAttempts: this.maxRetries, and at least one attempt.
NumOfAttempts(o) == Max(o.maxRetries, 1)

(***************************************************************************)
(* A generate call                                                         *)
(***************************************************************************)

Resolved(generations, llmOutput) ==
  [ok |-> TRUE, generations |-> generations, llmOutput |-> llmOutput, error |-> ""]

Rejected(err) ==
  [ok |-> FALSE, generations |-> <<>>, llmOutput |-> None, error |-> err]

IdleCall ==
  [pc |-> "idle", inst |-> "A", prompts |-> <<>>, stop |-> None,
   cached |-> FALSE, llmStringKey |-> <<>>, looked |-> <<>>, generations |-> <<>>,
   missingPromptIndices |-> <<>>, uncachedPrompts |-> <<>>,
   subPrompts |-> <<>>, i |-> 0, choices |-> <<>>, tokenUsage |-> NoTokenUsage,
   attemptNumber |-> 0, choice |-> EmptyChoice, toStream |-> <<>>,
   requests |-> <<>>, attempts |-> <<>>, thrown |-> <<>>, deltas |-> <<>>,
   output |-> None, result |-> None, doneBefore |-> {},
   events |-> <<>>, writes |-> <<>>, streamError |-> None, response |-> None,
   ended |-> None]

\* The task's promise settles: _generate returned or threw.
Settle(cr, outcome) == [cr EXCEPT !.pc = "settled", !.output = Some(outcome)]

\* completionWithRetry({...params, prompt: subPrompts[idx]}): backOff makes
\* the first createCompletion call.
IssueRequest(cr, o, idx) ==
  [cr EXCEPT !.pc = "request", !.i = idx, !.attemptNumber = 0,
             !.requests = Append(@, [prompt |-> cr.subPrompts[idx],
                                     stop |-> EffectiveStop(o, cr.stop),
                                     stream |-> o.streaming]),
             !.attempts = Append(@, 1),
             !.thrown = Append(@, <<>>)]

\* The end of the loop body: the next sub-batch, or the regrouped result.
EndOfSubBatch(cr, o) ==
  IF cr.i < Len(cr.subPrompts)
  THEN IssueRequest(cr, o, cr.i + 1)
  ELSE Settle(cr, Resolved(Generations(cr.choices, o.n), Some(cr.tokenUsage)))

\* _generate up to its first await.
StartGenerate(cr, o) ==
  LET begun == [cr EXCEPT !.subPrompts = chunkArray(cr.uncachedPrompts, o.batchSize),
                          !.choices = <<>>, !.tokenUsage = NoTokenUsage]
  IN IF StopConflict(o, cr.stop) THEN Settle(begun, Rejected(StopError))
     ELSE IF begun.subPrompts = <<>>
          THEN Settle(begun, Resolved(Generations(<<>>, o.n), Some(NoTokenUsage)))
          ELSE IssueRequest(begun, o, 1)

\* The order in which a cache that answers at once completes the lookups.
IndexOrder(prompts) == [k \in DOMAIN prompts |-> k]

\* A slip in the lookup callback: every index is pushed, hit or not.
MissingPromptIndices_all(looked, order) == order

\* missingPromptIndices: each lookup's callback pushes its index when the
\* lookup returned nothing, so the indices stand in the order `order` in
\* which the lookups complete.
MissingPromptIndices(looked, order) ==
  SelectSeq(order, LAMBDA k : looked[k] = None)

HandleStartThrew == "handleStart threw"
HandleEndThrew == "handleEnd threw"
HandleErrorThrew == "handleError threw"

\* A slip in _generateUncached: the task is queued before handleStart runs.
_generateUncached_submitsFirst(cr, o, prompts) ==
  [cr EXCEPT !.pc = "queued", !.uncachedPrompts = prompts,
             !.events = @ \o <<"queue.add", "handleStart">>]

\* _generateUncached(prompts, stop) up to its await: handleStart is invoked,
\* then the task is handed to this.queue.add; a throwing handleStart rejects
\* the call before anything is queued.
_generateUncached(cr, o, prompts) ==
  IF o.callbackManager.handleStart = "throws"
  THEN [cr EXCEPT !.pc = "done", !.uncachedPrompts = prompts,
                  !.events = @ \o <<"handleStart", "throw">>,
                  !.result = Some(Rejected(HandleStartThrew))]
  ELSE [cr EXCEPT !.pc = "queued", !.uncachedPrompts = prompts,
                  !.events = @ \o <<"handleStart", "queue.add">>]

\* _generateUncached after its await: what it returns or throws once the
\* task has settled with output. handleError runs in the catch block and
\* handleEnd after the try; what a hook throws replaces the outcome.
UncachedOutcome(o, output) ==
  IF output.ok
  THEN IF o.callbackManager.handleEnd = "throws"
       THEN Rejected(HandleEndThrew) ELSE output
  ELSE IF o.callbackManager.handleError = "throws"
       THEN Rejected(HandleErrorThrew) ELSE output

\* The cache.update calls of the fill loop, in the order they are made.
CacheWrites(prompts, missing, llmKey, results) ==
  [index \in 1 .. Min(Len(results), Len(missing)) |->
     [prompt |-> prompts[missing[index]], llmKey |-> llmKey,
      value |-> results[index]]]

\* generations[missingPromptIndices[index]] = results.generations[index]
FillGenerations(generations, missing, results) ==
  [k \in DOMAIN generations |->
     IF \E index \in DOMAIN results : index \in DOMAIN missing /\ missing[index] = k
     THEN Some(results[CHOOSE index \in DOMAIN results :
                         index \in DOMAIN missing /\ missing[index] = k])
     ELSE generations[k]]

\* A slip in the fill loop: an empty list is stored for every prompt.
FillCache_emptyLists(store, prompts, missing, llmKey, results, index) ==
  {e \in store : e.llmKey # llmKey}
    \cup {[prompt |-> prompts[missing[j]], llmKey |-> llmKey, value |-> <<>>] :
            j \in DOMAIN missing}

\* A slip after the uncached path: the results are never written back.
FillCache_none(store, prompts, missing, llmKey, results, index) == store

\* cache.update(prompts[promptIndex], llmStringKey, generation), index by index.
RECURSIVE FillCache(_, _, _, _, _, _)
FillCache(store, prompts, missing, llmKey, results, index) ==
  IF index > Len(results) \/ index > Len(missing) THEN store
  ELSE FillCache(update(store, prompts[missing[index]], llmKey, results[index]),
                 prompts, missing, llmKey, results, index + 1)

\* A limiter that admits whatever is queued.
HasRoom_always(o, nRunning) == TRUE

\* new PQueue({concurrency}): a queued task starts while fewer than
\* `concurrency` tasks are running.
HasRoom(o, nRunning) ==
  IF o.concurrency = None THEN TRUE ELSE nRunning < o.concurrency[1]

(***************************************************************************)
(* Actions                                                                 *)
(***************************************************************************)

\* BaseLLM.generate(prompts, stop) on instance i, up to the await of the
\* limiter's task; the cache lookups complete in the order `order`.
generate(c, i, prompts, stop, order) ==
  /\ call[c].pc = "idle"
  /\ \A d \in CallIds : d < c => call[d].pc # "idle"
  /\ LET o == inst[i]
         begun == [IdleCall EXCEPT !.inst = i, !.prompts = prompts, !.stop = stop,
                     !.doneBefore = {d \in CallIds : call[d].pc = "done"}]
         llmKey == llmStringKey(o, stop)
         looked == [k \in DOMAIN prompts |->
                      lookup(cacheStore, prompts[k], llmKey)]
         missing == MissingPromptIndices(looked, order)
         cr == [begun EXCEPT !.cached = TRUE, !.llmStringKey = llmKey,
                  !.looked = looked, !.generations = looked,
                  !.missingPromptIndices = missing]
         next ==
           IF o.cache = Some(FALSE) THEN _generateUncached(begun, o, prompts)
           ELSE IF missing = <<>>
                THEN [cr EXCEPT !.pc = "done",
                                !.result = Some(Resolved(looked, None))]
                ELSE _generateUncached(cr, o, [m \in DOMAIN missing |->
                                                 prompts[missing[m]]])
     IN /\ call' = [call EXCEPT ![c] = next]
        /\ queue' = [queue EXCEPT ![i] =
                       IF next.pc = "queued" THEN Append(@, c) ELSE @]
  /\ UNCHANGED <<made, inst, cacheStore, running>>

\* The limiter's task that runs _call for a prompt of call c, as the queue
\* and the set of running tasks name it.
CallTask(c) == 0 - c

\* LLM._generate: the next prompt's _call is handed to this.queue.add, or
\* the generations are returned when there is no further prompt.
NextCall(cr) ==
  IF cr.i < Len(cr.uncachedPrompts)
  THEN [cr EXCEPT !.pc = "callQueued", !.i = @ + 1]
  ELSE Settle(cr, Resolved([g \in DOMAIN cr.choices |-> <<cr.choices[g]>>], None))

\* The limiter starts the queued task: _generate runs up to its first await,
\* which in the simple LLM class is the await of a task it queues itself.
Admit(c) ==
  /\ call[c].pc = "queued"
  /\ LET i == call[c].inst
         next == IF inst[i].class = "LLM"
                 THEN NextCall([call[c] EXCEPT !.i = 0, !.choices = <<>>])
                 ELSE StartGenerate(call[c], inst[i])
     IN /\ queue[i] # <<>> /\ Head(queue[i]) = c
        /\ HasRoom(inst[i], Cardinality(running[i]))
        /\ queue' = [queue EXCEPT ![i] =
                       IF next.pc = "callQueued" THEN Append(Tail(@), CallTask(c))
                       ELSE Tail(@)]
        /\ call' = [call EXCEPT ![c] = next]
        /\ running' = [running EXCEPT ![i] =
                         IF next.pc = "settled" THEN @ ELSE @ \cup {c}]
  /\ UNCHANGED <<made, inst, cacheStore>>

\* _generate takes the non-streamed response of variant v: the choices and
\* the usage are added up and the loop goes on.
TakeResponse(cr, o, v) ==
  LET ps == cr.subPrompts[cr.i]
  IN EndOfSubBatch(
       [cr EXCEPT !.choices = @ \o ProviderChoices(ps, o.n, v),
                  !.tokenUsage = AddUsage(@, ProviderUsage(ps, o.n)),
                  !.response = None], o)

\* createCompletion succeeds: the response of the sub-batch in flight. A
\* streamed response opens the stream; PromptLayerOpenAI reports a
\* non-streamed one to the tracking service before it returns it.
AttemptOk(c, v) ==
  /\ call[c].pc = "request"
  /\ LET cr == call[c]
         o == inst[cr.inst]
         ps == cr.subPrompts[cr.i]
         next ==
           IF o.streaming
           THEN [cr EXCEPT !.pc = "stream", !.choice = EmptyChoice,
                           !.toStream = ProviderStream(ps, v), !.ended = None]
           ELSE IF o.class = "PromptLayerOpenAI"
                THEN [cr EXCEPT !.pc = "track", !.response = Some(v)]
                ELSE TakeResponse(cr, o, v)
     IN /\ call' = [call EXCEPT ![c] = next]
        /\ running' = [running EXCEPT ![cr.inst] =
                         IF next.pc = "settled" THEN @ \ {c} ELSE @]
  /\ UNCHANGED <<made, inst, cacheStore, queue>>

\* PromptLayerOpenAI.completionWithRetry: the fetch of track-request
\* resolves and the response is returned to _generate.
TrackOk(c) ==
  /\ call[c].pc = "track"
  /\ LET cr == call[c]
         next == TakeResponse(cr, inst[cr.inst], cr.response[1])
     IN /\ call' = [call EXCEPT ![c] = next]
        /\ running' = [running EXCEPT ![cr.inst] =
                         IF next.pc = "settled" THEN @ \ {c} ELSE @]
  /\ UNCHANGED <<made, inst, cacheStore, queue>>

\* The fetch of track-request rejects with err: the awaited fetch throws out
\* of completionWithRetry and of _generate.
TrackFail(c, err) ==
  /\ call[c].pc = "track"
  /\ call' = [call EXCEPT ![c] =
       Settle([call[c] EXCEPT !.response = None], Rejected(err))]
  /\ running' = [running EXCEPT ![call[c].inst] = @ \ {c}]
  /\ UNCHANGED <<made, inst, cacheStore, queue>>

\* The limiter starts the queued task of _call for the prompt call c is at.
AdmitCall(c) ==
  /\ call[c].pc = "callQueued"
  /\ LET i == call[c].inst
     IN /\ queue[i] # <<>> /\ Head(queue[i]) = CallTask(c)
        /\ HasRoom(inst[i], Cardinality(running[i]))
        /\ queue' = [queue EXCEPT ![i] = Tail(@)]
        /\ running' = [running EXCEPT ![i] = @ \cup {CallTask(c)}]
        /\ call' = [call EXCEPT ![c].pc = "call"]
  /\ UNCHANGED <<made, inst, cacheStore>>

\* _call resolves with the text of variant v: its task leaves the limiter,
\* and _generate pushes [{text}] and goes on.
CallDone(c, v) ==
  /\ call[c].pc = "call"
  /\ LET cr == call[c]
         i == cr.inst
         text == Completion(cr.uncachedPrompts[cr.i], v)
         next == NextCall([cr EXCEPT !.choices = Append(@, [text |-> text])])
     IN /\ call' = [call EXCEPT ![c] = next]
        /\ queue' = [queue EXCEPT ![i] =
                       IF next.pc = "callQueued" THEN Append(@, CallTask(c)) ELSE @]
        /\ running' = [running EXCEPT ![i] =
                         IF next.pc = "settled" THEN @ \ {c, CallTask(c)}
                         ELSE @ \ {CallTask(c)}]
  /\ UNCHANGED <<made, inst, cacheStore>>

\* createCompletion throws err: backOff tries again or gives up with err.
AttemptFail(c, err) ==
  /\ call[c].pc = "request"
  /\ LET cr == call[c]
         o == inst[cr.inst]
         failed == [cr EXCEPT !.attemptNumber = @ + 1,
                              !.thrown[Len(cr.thrown)] = Append(@, err)]
         next ==
           IF failed.attemptNumber >= NumOfAttempts(o)
           THEN Settle(failed, Rejected(err))
           ELSE [failed EXCEPT !.attempts[Len(failed.attempts)] = @ + 1]
     IN /\ call' = [call EXCEPT ![c] = next]
        /\ running' = [running EXCEPT ![cr.inst] =
                         IF next.pc = "settled" THEN @ \ {c} ELSE @]
  /\ UNCHANGED <<made, inst, cacheStore, queue>>

\* A delta event arrives on the open stream: the next len tokens of the text
\* of the k-th prompt of the request.
StreamDelta(c, k, len) ==
  /\ call[c].pc = "stream"
  /\ k \in DOMAIN call[c].toStream
  /\ len \in 1 .. Len(call[c].toStream[k])
  /\ LET cr == call[c]
         part == DeltaPart(cr.toStream[k], len)
     IN call' = [call EXCEPT ![c] =
          [cr EXCEPT !.choice = AppendPart(@, part),
                     !.toStream[k] = SubSeq(@, len + 1, Len(@)),
                     !.deltas = Append(@, [i |-> cr.i, k |-> k, part |-> part])]]
  /\ UNCHANGED <<made, inst, cacheStore, queue, running>>

\* The "[DONE]" event: resolve(choice); choices.push(choice).
StreamDone(c) ==
  /\ call[c].pc = "stream"
  /\ \A k \in DOMAIN call[c].toStream : call[c].toStream[k] = <<>>
  /\ LET cr == call[c]
         o == inst[cr.inst]
         next == EndOfSubBatch(
                   [cr EXCEPT !.choices = Append(@, cr.choice),
                              !.tokenUsage = AddUsage(@, NoUsage),
                              !.ended = Some("[DONE]")], o)
     IN /\ call' = [call EXCEPT ![c] = next]
        /\ running' = [running EXCEPT ![cr.inst] =
                         IF next.pc = "settled" THEN @ \ {c} ELSE @]
  /\ UNCHANGED <<made, inst, cacheStore, queue>>

\* A slip in the error listener: the stream's error resolves the promise
\* with what has been accumulated.
StreamError_resolvesPartial(c, err) ==
  /\ call[c].pc = "stream"
  /\ LET cr == [call[c] EXCEPT !.streamError = Some(err), !.ended = Some("error")]
         next == EndOfSubBatch([cr EXCEPT !.choices = Append(@, cr.choice)],
                               inst[cr.inst])
     IN /\ call' = [call EXCEPT ![c] = next]
        /\ running' = [running EXCEPT ![cr.inst] =
                         IF next.pc = "settled" THEN @ \ {c} ELSE @]
  /\ UNCHANGED <<made, inst, cacheStore, queue>>

\* The stream emits "error" before "[DONE]": reject(error).
StreamError(c, err) ==
  /\ call[c].pc = "stream"
  /\ call' = [call EXCEPT ![c] =
       Settle([call[c] EXCEPT !.streamError = Some(err), !.ended = Some("error")],
              Rejected(err))]
  /\ running' = [running EXCEPT ![call[c].inst] = @ \ {c}]
  /\ UNCHANGED <<made, inst, cacheStore, queue>>

\* The stream ends with neither "[DONE]" nor "error" (the response emits
\* "end" and "close"): the stream has listeners for "data" and "error"
\* only, so nothing is called, and _generate goes on awaiting the promise
\* with the task still holding its slot of the limiter.
StreamClose(c) ==
  /\ call[c].pc = "stream"
  /\ call' = [call EXCEPT ![c] = [@ EXCEPT !.pc = "closed", !.ended = Some("close")]]
  /\ UNCHANGED <<made, inst, cacheStore, queue, running>>

\* What generate returns or throws once _generateUncached has returned or
\* thrown outcome.
GenerateResult(cr, outcome) ==
  IF ~outcome.ok THEN Rejected(outcome.error)
  ELSE IF ~cr.cached
       THEN Resolved([g \in DOMAIN outcome.generations |-> Some(outcome.generations[g])],
                     outcome.llmOutput)
       ELSE Resolved(FillGenerations(cr.generations, cr.missingPromptIndices,
                                     outcome.generations),
                     outcome.llmOutput)

\* The rest of _generateUncached and of generate after the task has settled:
\* the end or error hook is invoked, the results go into `generations` and
\* into the cache, and generate returns or throws.
Return(c) ==
  /\ call[c].pc = "settled"
  /\ LET cr == call[c]
         o == inst[cr.inst]
         outcome == UncachedOutcome(o, cr.output[1])
         result == GenerateResult(cr, outcome)
         filled == outcome.ok /\ cr.cached
     IN /\ call' = [call EXCEPT ![c] =
              [cr EXCEPT !.pc = "done", !.result = Some(result),
                         !.generations = result.generations,
                         !.events = @ \o <<IF cr.output[1].ok THEN "handleEnd"
                                            ELSE "handleError",
                                            IF result.ok THEN "return" ELSE "throw">>,
                         !.writes = IF filled
                                    THEN CacheWrites(cr.prompts, cr.missingPromptIndices,
                                                     cr.llmStringKey, outcome.generations)
                                    ELSE <<>>]]
        /\ cacheStore' =
             IF filled
             THEN FillCache(cacheStore, cr.prompts, cr.missingPromptIndices,
                            cr.llmStringKey, outcome.generations, 1)
             ELSE cacheStore
  /\ UNCHANGED <<made, inst, queue, running>>

(***************************************************************************)
(* Specifications                                                          *)
(***************************************************************************)

NoCalls ==
  /\ cacheStore = {}
  /\ queue = [i \in Inst |-> <<>>]
  /\ running = [i \in Inst |-> {}]
  /\ call = [c \in CallIds |-> IdleCall]

\* The record of a constructor call that returned: how the instance was made
\* ("new" or "deserialize") and from which fields.
Made(by, fields) == [by |-> by, fields |-> fields, error |-> None]

\* The record of a constructor call that threw err.
Threw(by, fields, err) == [by |-> by, fields |-> fields, error |-> Some(err)]

\* No constructor call yet, and the instance there is none of.
NotMade == [by |-> "none", fields |-> NoFields, error |-> None]
NoInstance == [class |-> "none"]

\* new OpenAI(fields), kept as instance i when the constructor returns.
Construct(i, by, fields) ==
  /\ made[i].by = "none"
  /\ IF ConstructorThrows(fields)
     THEN /\ made' = [made EXCEPT ![i] = Threw(by, fields, ConstructorError(fields))]
          /\ UNCHANGED inst
     ELSE /\ made' = [made EXCEPT ![i] = Made(by, fields)]
          /\ inst' = [inst EXCEPT ![i] = OpenAI(fields)]
  /\ UNCHANGED <<cacheStore, queue, running, call>>

\* BaseLLM.deserialize(inst[i].serialize()), kept as instance j.
deserialize(i, j) ==
  /\ made[i].by # "none" /\ made[i].error = None
  /\ Construct(j, "deserialize", DeserializedFields(serialize(inst[i])))

\* The two instances as constructed from fieldsA and fieldsB.
Constructed(fieldsA, fieldsB) ==
  /\ ~ConstructorThrows(fieldsA)
  /\ ~ConstructorThrows(fieldsB)
  /\ made = [i \in Inst |-> Made("new", IF i = "A" THEN fieldsA ELSE fieldsB)]
  /\ inst = [i \in Inst |-> IF i = "A" THEN OpenAI(fieldsA) ELSE OpenAI(fieldsB)]

\* The cache facade: calls that may overlap, on two instances that share the
\* cache and differ in the construction-time stop list and in the cache flag;
\* neither streams nor retries, and a call is one sub-batch.
Init ==
  /\ \E stopA \in {None, Some(StopX)}, cacheA \in {Some(TRUE), Some(FALSE)} :
       Constructed([NoFields EXCEPT !.stop = stopA, !.cache = cacheA,
                      !.batchSize = Some(MaxPrompts), !.maxRetries = Some(1)],
                   [NoFields EXCEPT !.batchSize = Some(MaxPrompts),
                      !.maxRetries = Some(1)])
  /\ NoCalls

Next ==
  \/ \E c \in 1 .. MaxOverlap, i \in Inst, prompts \in PromptLists(MaxPrompts),
        stop \in {None, Some(StopX)} : generate(c, i, prompts, stop, IndexOrder(prompts))
  \/ \E c \in CallIds : Admit(c)
  \/ \E c \in CallIds, v \in Variants : AttemptOk(c, v)
  \/ \E c \in CallIds : AttemptFail(c, "ETIMEDOUT")
  \/ \E c \in CallIds : Return(c)

Spec == Init /\ [][Next]_vars

\* The limiter: up to MaxCalls one-prompt calls on one instance of finite
\* concurrency, with and without the cache.
InitLimiter ==
  /\ \E k \in 1 .. MaxConcurrency, cacheA \in {None, Some(FALSE)} :
       Constructed([NoFields EXCEPT !.concurrency = Some(k), !.cache = cacheA,
                      !.maxRetries = Some(1)],
                   NoFields)
  /\ NoCalls

NextLimiter ==
  \/ \E c \in CallIds, p \in Prompts : generate(c, "A", <<p>>, None, <<1>>)
  \/ \E c \in CallIds : Admit(c)
  \/ \E c \in CallIds : AttemptOk(c, "x")
  \/ \E c \in CallIds : AttemptFail(c, "ETIMEDOUT")
  \/ \E c \in CallIds : Return(c)

SpecLimiter == InitLimiter /\ [][NextLimiter]_vars

\* The retry executor: one call of one or two sub-batches on an instance
\* whose maxRetries ranges from 0.
InitRetry ==
  /\ \E r \in 0 .. MaxRetriesTried, cacheA \in {None, Some(FALSE)} :
       Constructed([NoFields EXCEPT !.maxRetries = Some(r), !.cache = cacheA,
                      !.batchSize = Some(1)],
                   NoFields)
  /\ NoCalls

NextRetry ==
  \/ \E prompts \in PromptLists(MaxPrompts) : generate(1, "A", prompts, None, IndexOrder(prompts))
  \/ Admit(1)
  \/ \E v \in Variants : AttemptOk(1, v)
  \/ \E err \in NetworkErrors : AttemptFail(1, err)
  \/ Return(1)

SpecRetry == InitRetry /\ [][NextRetry]_vars

\* Streaming: one call on a streaming instance, the deltas of a response cut
\* at every place.
InitStream ==
  /\ \E batchSize \in 1 .. MaxPrompts, cacheA \in {None, Some(FALSE)} :
       Constructed([NoFields EXCEPT !.streaming = Some(TRUE), !.cache = cacheA,
                      !.batchSize = Some(batchSize), !.maxRetries = Some(1)],
                   NoFields)
  /\ NoCalls

NextStream ==
  \/ \E prompts \in PromptLists(MaxPrompts) : generate(1, "A", prompts, None, IndexOrder(prompts))
  \/ Admit(1)
  \/ \E v \in Variants : AttemptOk(1, v)
  \/ AttemptFail(1, "ETIMEDOUT")
  \/ \E k \in 1 .. MaxPrompts, len \in 1 .. Len(Completion("p1", "x")) :
       StreamDelta(1, k, len)
  \/ StreamDone(1)
  \/ StreamError(1, "ECONNRESET")
  \/ Return(1)

SpecStream == InitStream /\ [][NextStream]_vars

\* Streaming with every way a stream can end. The event loop runs every
\* continuation that is ready, the provider answers every request, and
\* every open stream ends, in one of the three ways.
NextStreamEnd ==
  \/ NextStream
  \/ StreamClose(1)

SpecStreamEnd ==
  /\ InitStream /\ [][NextStreamEnd]_vars
  /\ WF_vars(Admit(1))
  /\ WF_vars((\E v \in Variants : AttemptOk(1, v)) \/ AttemptFail(1, "ETIMEDOUT"))
  /\ WF_vars(StreamDone(1) \/ StreamError(1, "ECONNRESET") \/ StreamClose(1))
  /\ WF_vars(Return(1))

\* The lookups: two calls on one instance with caching enabled, the lookups
\* of a call completing in any order.
Orders(prompts) ==
  {order \in [DOMAIN prompts -> DOMAIN prompts] :
     \A j, k \in DOMAIN prompts : j # k => order[j] # order[k]}

InitLookup ==
  /\ Constructed([NoFields EXCEPT !.batchSize = Some(MaxPrompts),
                     !.maxRetries = Some(1)],
                 NoFields)
  /\ NoCalls

NextLookup ==
  \/ \E c \in 1 .. MaxOverlap, prompts \in PromptLists(MaxPrompts) :
       \E order \in Orders(prompts) : generate(c, "A", prompts, None, order)
  \/ \E c \in CallIds : Admit(c)
  \/ \E c \in CallIds : AttemptOk(c, "x")
  \/ \E c \in CallIds : Return(c)

SpecLookup == InitLookup /\ [][NextLookup]_vars

\* The simple LLM class: overlapping calls on an instance of finite
\* concurrency whose _call always completes. The event loop runs every
\* continuation that is ready, so every step but the caller's generate is
\* fair.
InitSimple ==
  /\ \E k \in 1 .. MaxConcurrency :
       LET fields == [NoFields EXCEPT !.concurrency = Some(k), !.cache = Some(FALSE)]
       IN /\ made = [i \in Inst |-> Made("new", fields)]
          /\ inst = [i \in Inst |-> SimpleLLM(fields)]
  /\ NoCalls

NextSimple ==
  \/ \E c \in CallIds, prompts \in PromptLists(MaxPrompts) :
       generate(c, "A", prompts, None, IndexOrder(prompts))
  \/ \E c \in CallIds : Admit(c)
  \/ \E c \in CallIds : AdmitCall(c)
  \/ \E c \in CallIds, v \in Variants : CallDone(c, v)
  \/ \E c \in CallIds : Return(c)

SpecSimple ==
  /\ InitSimple /\ [][NextSimple]_vars
  /\ WF_vars(\E c \in CallIds : Admit(c))
  /\ WF_vars(\E c \in CallIds : AdmitCall(c))
  /\ WF_vars(\E c \in CallIds, v \in Variants : CallDone(c, v))
  /\ WF_vars(\E c \in CallIds : Return(c))

\* The hooks: one call on an OpenAI instance whose callback manager's hooks
\* return or throw, or on a PromptLayerOpenAI instance whose tracking
\* request succeeds or fails.
HookOutcomes == {"returns", "throws"}

CallbackManagers ==
  [handleStart : HookOutcomes, handleEnd : HookOutcomes, handleError : HookOutcomes]

InitHooks ==
  /\ \E cm \in CallbackManagers, cacheA \in {None, Some(FALSE)} :
       LET fieldsA == [NoFields EXCEPT !.callbackManager = Some(cm),
                         !.cache = cacheA, !.batchSize = Some(1),
                         !.maxRetries = Some(1)]
           fieldsB == [NoFields EXCEPT !.batchSize = Some(1),
                         !.maxRetries = Some(1)]
       IN /\ made = [i \in Inst |-> Made("new", IF i = "A" THEN fieldsA ELSE fieldsB)]
          /\ inst = [i \in Inst |-> IF i = "A" THEN OpenAI(fieldsA)
                                    ELSE PromptLayerOpenAI(fieldsB)]
  /\ NoCalls

NextHooks ==
  \/ \E i \in Inst, prompts \in PromptLists(MaxPrompts) :
       generate(1, i, prompts, None, IndexOrder(prompts))
  \/ Admit(1)
  \/ AttemptOk(1, "x")
  \/ AttemptFail(1, "ETIMEDOUT")
  \/ TrackOk(1)
  \/ TrackFail(1, TrackError)
  \/ Return(1)

SpecHooks == InitHooks /\ [][NextHooks]_vars

\* The parameter signature: two instances that differ in the stop list and
\* in the modelKwargs and their order, and the key each call derives.
StopLists == {None, Some(StopX), Some(StopY), Some(StopXY), Some(StopXcommaY)}

KwUser == << <<"u", "s", "e", "r">>, Str(<<"u", "1">>) >>
KwEcho == << <<"e", "c", "h", "o">>, Bool(TRUE) >>

KeyFields ==
  {[NoFields EXCEPT !.stop = stop, !.modelKwargs = kw] :
     stop \in StopLists,
     kw \in {None, Some(<<KwUser, KwEcho>>), Some(<<KwEcho, KwUser>>)}}

InitKey ==
  /\ \E fieldsA \in KeyFields, fieldsB \in KeyFields : Constructed(fieldsA, fieldsB)
  /\ NoCalls

NextKey ==
  \E c \in 1 .. 2, i \in Inst, stop \in StopLists : generate(c, i, <<"p1">>, stop, <<1>>)

SpecKey == InitKey /\ [][NextKey]_vars

\* Construction: instance A is constructed from any of the fields, and B is
\* what deserialize makes of A's serialization.
OptionsOf(values) == {None} \cup {Some(v) : v \in values}

ConstructFields ==
  {[NoFields EXCEPT !.streaming = streaming, !.n = n, !.bestOf = bestOf,
                    !.temperature = temperature, !.stop = stop,
                    !.modelKwargs = kw] :
     streaming \in OptionsOf(BOOLEAN), n \in OptionsOf(1 .. MaxChoices),
     bestOf \in OptionsOf(1 .. MaxChoices), temperature \in OptionsOf({0, 10}),
     stop \in OptionsOf({StopX}), kw \in OptionsOf({<<KwUser>>})}

InitConstruct ==
  /\ made = [i \in Inst |-> NotMade]
  /\ inst = [i \in Inst |-> NoInstance]
  /\ NoCalls

NextConstruct ==
  \/ \E fields \in ConstructFields : Construct("A", "new", fields)
  \/ deserialize("A", "B")

SpecConstruct == InitConstruct /\ [][NextConstruct]_vars

(***************************************************************************)
(* Properties                                                              *)
(***************************************************************************)

Started(c) == call[c].pc # "idle"
Done(c) == call[c].pc = "done"
Succeeded(c) == Done(c) /\ call[c].result[1].ok
Failed(c) == Done(c) /\ ~call[c].result[1].ok

\* gens is a list of n generations the provider produced for prompt p.
ProducedFor(gens, p, n) ==
  /\ Len(gens) = n
  /\ \A j \in DOMAIN gens : \E v \in Variants : gens[j].text = Completion(p, v)

\* C1: a successful generate(P) returns exactly len(P) generation lists, and
\* the list at position i is the one produced (or cached) for prompt P[i],
\* whatever the cache held, the batch size and the streaming flag.
C1_OneListPerPromptInOrder ==
  \A c \in CallIds :
    Succeeded(c) =>
      LET generations == call[c].result[1].generations
      IN /\ Len(generations) = Len(call[c].prompts)
         /\ \A k \in DOMAIN generations :
              /\ generations[k] # None
              /\ ProducedFor(generations[k][1], call[c].prompts[k],
                             inst[call[c].inst].n)

\* The prompts of every request the call has sent to the provider.
SentPrompts(c) ==
  UNION {Range(call[c].requests[r].prompt) : r \in DOMAIN call[c].requests}

\* C2: with caching enabled, a prompt whose lookup returned a stored list is
\* in no request the call sends to the provider; only the prompts that
\* missed are passed to the uncached path.
C2_CacheHitsAreNeverSent ==
  \A c \in CallIds :
    (Started(c) /\ call[c].cached) =>
      /\ \A k \in DOMAIN call[c].looked :
           call[c].looked[k] # None => call[c].prompts[k] \notin SentPrompts(c)
      /\ SentPrompts(c) \subseteq Range(call[c].uncachedPrompts)
      /\ Range(call[c].uncachedPrompts) =
           {call[c].prompts[k] : k \in {j \in DOMAIN call[c].looked :
                                          call[c].looked[j] = None}}

\* A call that found one of its prompts in the cache and sent the other.
C2_Witness ==
  \E c \in CallIds :
    /\ call[c].cached
    /\ \E k \in DOMAIN call[c].looked : call[c].looked[k] # None
    /\ SentPrompts(c) # {}

\* c2 is generate([p], s) called again on the same instance after c1 has
\* returned, with no other call in flight around either.
InSequence(c1, c2) ==
  /\ c2 = c1 + 1
  /\ Succeeded(c1) /\ Succeeded(c2)
  /\ call[c1].cached
  /\ call[c1].inst = call[c2].inst
  /\ Len(call[c1].prompts) = 1
  /\ call[c1].prompts = call[c2].prompts
  /\ call[c1].stop = call[c2].stop
  /\ \A d \in CallIds : d < c1 => d \in call[c1].doneBefore
  /\ \A d \in CallIds : d < c2 => d \in call[c2].doneBefore

\* C3 as stated: generate([p], s) twice in sequence with caching enabled
\* performs the network operation at most once, and the second call's result
\* equals the first's.
C3_SecondResultEqualsFirst ==
  \A c1, c2 \in CallIds :
    InSequence(c1, c2) =>
      /\ Len(call[c1].requests) + Len(call[c2].requests) <= 1
      /\ call[c2].result = call[c1].result

\* C3 as amended: the network operation is performed at most once and never
\* by the second call, whose generation lists equal the first call's and
\* whose llmOutput is empty.
C3_SecondGenerationsEqualFirst ==
  \A c1, c2 \in CallIds :
    InSequence(c1, c2) =>
      /\ Len(call[c1].requests) + Len(call[c2].requests) <= 1
      /\ call[c2].requests = <<>>
      /\ call[c2].result[1].generations = call[c1].result[1].generations
      /\ call[c2].result[1].llmOutput = None

\* The first of two calls in sequence went to the provider.
C3_Witness ==
  \E c1, c2 \in CallIds : InSequence(c1, c2) /\ Len(call[c1].requests) = 1

\* The instances agree on every invocation parameter but the stop list.
SameParamsButStop(o1, o2) ==
  /\ \A f \in {"modelName", "temperature", "maxTokens", "topP",
               "frequencyPenalty", "presencePenalty", "n", "bestOf",
               "logitBias", "streaming", "apiKey"} : o1[f] = o2[f]
  /\ Range(o1.modelKwargs) = Range(o2.modelKwargs)

\* Calls c and d derive a cache key for the same prompt under parameters
\* that agree but for the stop list, each with one source for its stop list.
KeyedAlike(c, d) ==
  /\ Started(c) /\ Started(d)
  /\ call[c].cached /\ call[d].cached
  /\ call[c].prompts = call[d].prompts
  /\ ~StopConflict(inst[call[c].inst], call[c].stop)
  /\ ~StopConflict(inst[call[d].inst], call[d].stop)
  /\ SameParamsButStop(inst[call[c].inst], inst[call[d].inst])

\* C4: two generate calls with the same prompt and identical effective
\* invocation parameters (the effective stop list being the per-call one when
\* given, else the construction-time one) derive the same cache key, on one
\* instance or two, in whatever order the parameters were inserted.
C4_SameParamsSameKey ==
  \A c, d \in CallIds :
    (/\ KeyedAlike(c, d)
     /\ EffectiveStop(inst[call[c].inst], call[c].stop)
          = EffectiveStop(inst[call[d].inst], call[d].stop))
    => call[c].llmStringKey = call[d].llmStringKey

\* C5: for a fixed prompt and otherwise identical parameters, two generate
\* calls whose effective stop lists differ derive different cache keys.
C5_DifferentStopDifferentKey ==
  \A c, d \in CallIds :
    (/\ KeyedAlike(c, d)
     /\ EffectiveStop(inst[call[c].inst], call[c].stop)
          # EffectiveStop(inst[call[d].inst], call[d].stop))
    => call[c].llmStringKey # call[d].llmStringKey

\* C6: with concurrency = k on an instance, never more than k
\* limiter-admitted tasks run at the same time, and a call has a provider
\* request or stream open only while it is one of them, with or without the
\* cache.
C6_AtMostKRunning ==
  /\ \A i \in Inst :
       inst[i].concurrency # None =>
         Cardinality(running[i]) <= inst[i].concurrency[1]
  /\ \A c \in CallIds :
       call[c].pc \in {"request", "stream"} => c \in running[call[c].inst]

\* The limiter is full, a task waits behind it, and a request is open on an
\* instance whose cache is off.
C6_Witness ==
  \E i \in Inst :
    /\ inst[i].concurrency # None
    /\ inst[i].cache = Some(FALSE)
    /\ Cardinality(running[i]) = inst[i].concurrency[1]
    /\ queue[i] # <<>>
    /\ \E c \in running[i] : call[c].pc = "request"

\* Request r of call c failed on every attempt made for it.
AlwaysFailed(c, r) == Len(call[c].thrown[r]) = call[c].attempts[r]

Last(seq) == seq[Len(seq)]

\* Every request of a returned call was attempted as a limit of
\* max(maxRetries, least) attempts allows: that many times when every attempt
\* failed, the last error then being what generate throws, and otherwise
\* once more than it failed.
RetryBound(least) ==
  \A c \in CallIds :
    Done(c) =>
      \A r \in DOMAIN call[c].requests :
        LET limit == Max(inst[call[c].inst].maxRetries, least)
        IN IF AlwaysFailed(c, r)
           THEN /\ call[c].attempts[r] = limit
                /\ r = Len(call[c].requests)
                /\ Failed(c)
                /\ call[c].result[1].error = Last(call[c].thrown[r])
           ELSE /\ call[c].attempts[r] = Len(call[c].thrown[r]) + 1
                /\ call[c].attempts[r] <= limit

\* C7 as stated: a network call that fails on every attempt is attempted
\* exactly maxRetries times and its error reaches the caller of generate
\* unchanged; one that succeeds on attempt j <= maxRetries is attempted
\* exactly j times.
C7_ExactlyMaxRetriesAttempts == RetryBound(0)

\* C7 as amended: the number of attempts is maxRetries, and one when
\* maxRetries is 0.
C7_ExactlyMaxRetriesOrOneAttempt == RetryBound(1)

\* A request gave up after three failed attempts, and one succeeded on its
\* second.
C7_Witness ==
  \E c \in CallIds :
    /\ Failed(c)
    /\ \E r \in DOMAIN call[c].requests :
         AlwaysFailed(c, r) /\ call[c].attempts[r] = 3
    /\ \E r \in DOMAIN call[c].requests :
         ~AlwaysFailed(c, r) /\ call[c].attempts[r] = 2

\* The delta events of the i-th request of call c, in arrival order.
DeltasOf(c, i) == SelectSeq(call[c].deltas, LAMBDA d : d.i = i)

RECURSIVE ConcatText(_)
ConcatText(ds) ==
  IF ds = <<>> THEN <<>>
  ELSE OrElse(Head(ds).part.text, <<>>) \o ConcatText(Tail(ds))

\* Call c returned what a streaming instance assembled from requests of one
\* prompt each.
StreamedOneByOne(c) ==
  /\ Succeeded(c)
  /\ inst[call[c].inst].streaming
  /\ call[c].requests # <<>>
  /\ \A r \in DOMAIN call[c].requests : Len(call[c].requests[r].prompt) = 1

\* C8: for one streamed prompt, the generation text is the concatenation of
\* the delta fragments in arrival order, the finish reason and the
\* log-probabilities are those of the last delta, and the text is the one
\* the non-streaming path yields when the provider returns the same whole
\* string.
C8_StreamedTextIsConcatenation ==
  \A c \in CallIds :
    StreamedOneByOne(c) =>
      \A g \in DOMAIN call[c].requests :
        LET ds == DeltasOf(c, g)
            gen == call[c].result[1].generations[g][1][1]
            p == call[c].requests[g].prompt[1]
        IN /\ ds # <<>>
           /\ gen.text = ConcatText(ds)
           /\ gen.generationInfo.finishReason = Last(ds).part.finish_reason
           /\ gen.generationInfo.logprobs = Last(ds).part.logprobs
           /\ \E v \in Variants :
                /\ ConcatText(ds) = Completion(p, v)
                /\ gen.text = Generations(ProviderChoices(<<p>>, 1, v), 1)[1][1].text

\* A streamed prompt whose text arrived in three fragments.
C8_Witness ==
  \E c \in CallIds :
    /\ StreamedOneByOne(c)
    /\ \E g \in DOMAIN call[c].requests : Len(DeltasOf(c, g)) = 3

\* C9: generate fails with the configuration error whenever a stop list was
\* given at construction and another is given to the call, whatever the
\* cache contains: no provider request is issued for the call and it returns
\* no result.
C9_StopTwiceAlwaysFails ==
  \A c \in CallIds :
    (Started(c) /\ StopConflict(inst[call[c].inst], call[c].stop)) =>
      /\ call[c].requests = <<>>
      /\ Done(c) => (Failed(c) /\ call[c].result[1].error = StopError)

\* C10: with batchSize = b and N prompts handed to _generate, exactly
\* ceil(N/b) requests are issued in prompt order, each with the next b
\* prompts (fewer in the last), and the choices come back as N generation
\* lists of n items, list i for prompt i.
C10_SubBatchesAndRegrouping ==
  \A c \in CallIds :
    (IF call[c].output = None THEN FALSE ELSE call[c].output[1].ok) =>
      LET o == inst[call[c].inst]
          b == o.batchSize
          P == call[c].uncachedPrompts
          N == Len(P)
          generations == call[c].output[1].generations
      IN /\ Len(call[c].requests) = (N + b - 1) \div b
         /\ \A r \in DOMAIN call[c].requests :
              call[c].requests[r].prompt = SubSeq(P, (r - 1) * b + 1, Min(r * b, N))
         /\ Len(generations) = N
         /\ \A k \in DOMAIN generations :
              k <= N => ProducedFor(generations[k], P[k], o.n)

HookErrors == {HandleStartThrew, HandleEndThrew, HandleErrorThrew, TrackError}

\* C11: a failure of an observability hook (the start, end or error
\* notification, or the request-tracking side call) is never propagated:
\* generate fails with no hook's error, and returns or throws what the
\* limiter's task resolved or rejected with.
C11_HookFailuresAreSwallowed ==
  \A c \in CallIds :
    (Done(c) /\ call[c].events # <<>>) =>
      /\ ~(Failed(c) /\ call[c].result[1].error \in HookErrors)
      /\ IF call[c].output = None THEN FALSE
         ELSE call[c].result[1] = GenerateResult(call[c], call[c].output[1])

\* C12: for every batch call of the uncached path the start notification is
\* invoked before the call is submitted to the limiter, and then exactly one
\* of the end notification (when the call succeeded, before generate
\* returns) or the error notification (when it failed, before the error is
\* raised) is invoked, and neither before the call has completed.
C12_StartThenEndOrError ==
  \A c \in CallIds :
    LET ev == call[c].events
    IN /\ call[c].pc \in {"queued", "request", "track", "stream", "settled"}
            => ev = <<"handleStart", "queue.add">>
       /\ Done(c) =>
            \/ ev = <<>>
            \/ ev = <<"handleStart", "throw">> /\ call[c].output = None
            \/ /\ call[c].output # None
               /\ Len(ev) = 4
               /\ SubSeq(ev, 1, 2) = <<"handleStart", "queue.add">>
               /\ ev[3] = (IF call[c].output[1].ok THEN "handleEnd" ELSE "handleError")
               /\ ev[4] \in {"return", "throw"}

\* A call whose batch call failed and whose error hook threw.
C12_Witness ==
  \E c \in CallIds :
    /\ Done(c)
    /\ Len(call[c].events) = 4 /\ call[c].events[3] = "handleError"
    /\ inst[call[c].inst].callbackManager.handleError = "throws"

\* C13: construction with streaming = true and n > 1, or with streaming =
\* true and bestOf > 1, fails with the configuration error and yields no
\* instance; any other construction succeeds, so streaming = true with
\* n = bestOf = 1.
C13_StreamingNeedsOneChoice ==
  \A i \in Inst :
    made[i].by = "new" =>
      LET f == made[i].fields
          streaming == IF f.streaming = None THEN FALSE ELSE f.streaming[1]
          n == IF f.n = None THEN 1 ELSE f.n[1]
          bestOf == IF f.bestOf = None THEN 1 ELSE f.bestOf[1]
      IN IF streaming /\ (n > 1 \/ bestOf > 1)
         THEN /\ made[i].error \in {Some("Cannot stream results when n > 1"),
                                   Some("Cannot stream results when bestOf > 1")}
              /\ inst[i].class = "none"
         ELSE /\ made[i].error = None
              /\ inst[i].class = "OpenAI"
              /\ inst[i].streaming = streaming
              /\ inst[i].n = n /\ inst[i].bestOf = bestOf

\* A construction with streaming = true, n = 1 and bestOf = 2 has thrown.
C13_Witness ==
  \E i \in Inst :
    /\ made[i].by = "new" /\ made[i].error # None
    /\ made[i].fields.n = Some(1) /\ made[i].fields.bestOf = Some(MaxChoices)

\* C14: the instance deserialize reconstructs from serialize(x) has the same
\* _type and the same identifying parameters as x, so its serialization
\* has the entries of serialize(x).
C14_SerializeRoundTrip ==
  made["B"].by = "deserialize" =>
    /\ made["B"].error = None
    /\ Range(serialize(inst["B"])) = Range(serialize(inst["A"]))

\* C15: in a generate call with caching enabled the cache is written only
\* after the uncached path has returned; one write is made per prompt that
\* missed, under the key derived for the lookup; none is made for a prompt
\* that hit; and no (prompt, key) pair is written more than once.
C15_OneWritePerMissingPrompt ==
  \A c \in CallIds :
    LET w == call[c].writes
        cr == call[c]
    IN /\ w # <<>> => (Succeeded(c) /\ cr.cached /\ cr.output # None)
       /\ (Succeeded(c) /\ cr.cached) =>
            /\ Len(w) = Len(cr.missingPromptIndices)
            /\ \A j \in DOMAIN w :
                 /\ w[j].prompt = cr.prompts[cr.missingPromptIndices[j]]
                 /\ w[j].llmKey = cr.llmStringKey
                 /\ \A k \in DOMAIN cr.looked :
                      cr.looked[k] # None => w[j].prompt # cr.prompts[k]
            /\ \A j, k \in DOMAIN w :
                 (j # k) => <<w[j].prompt, w[j].llmKey>> # <<w[k].prompt, w[k].llmKey>>

\* The text of the delta events of request i of call c that belong to its
\* k-th prompt, in arrival order.
TextOf(c, i, k) ==
  ConcatText(SelectSeq(call[c].deltas, LAMBDA d : d.i = i /\ d.k = k))

\* C16: on the streaming path every prompt has its own accumulator and
\* yields exactly one choice: the text accumulated while a request streams
\* is made of the deltas of one prompt only, and _generate returns one
\* generation list per prompt.
C16_OneAccumulatorPerPrompt ==
  \A c \in CallIds :
    inst[call[c].inst].streaming =>
      /\ call[c].pc = "stream" =>
           \E k \in DOMAIN call[c].toStream :
             OrElse(call[c].choice.text, <<>>) \in {<<>>, TextOf(c, call[c].i, k)}
      /\ (IF call[c].output = None THEN FALSE ELSE call[c].output[1].ok) =>
           Len(call[c].output[1].generations) = Len(call[c].uncachedPrompts)

\* C17: when the open stream fails with an error before the sentinel, the
\* streamed call fails with that same error: generate raises it, returns no
\* generation, and nothing is written to the cache.
C17_StreamErrorFailsTheCall ==
  \A c \in CallIds :
    call[c].streamError # None =>
      /\ call[c].pc \in {"settled", "done"}
      /\ call[c].output = Some(Rejected(call[c].streamError[1]))
      /\ call[c].writes = <<>>
      /\ cacheStore = {}
      /\ Done(c) =>
           /\ call[c].result = Some(Rejected(call[c].streamError[1]))
           /\ call[c].result[1].generations = <<>>

\* A call with caching enabled has thrown the error of a stream that had
\* already delivered a delta.
C17_Witness ==
  \E c \in CallIds :
    /\ Done(c) /\ call[c].cached
    /\ call[c].streamError # None
    /\ call[c].choice.text # None

\* The prompts of call c whose lookup returned nothing, in the order they
\* have in the call's prompt list.
MissedInOrder(c) ==
  LET idx == SelectSeq([k \in DOMAIN call[c].prompts |-> k],
                       LAMBDA k : call[c].looked[k] = None)
  IN [m \in DOMAIN idx |-> call[c].prompts[idx[m]]]

\* C18: the prompts that missed the cache are passed to the uncached path in
\* their original relative order, whatever the order the lookups complete in.
C18_MissesKeepTheirOrder ==
  \A c \in CallIds :
    (call[c].cached /\ call[c].events # <<>>) =>
      call[c].uncachedPrompts = MissedInOrder(c)

\* Calls c and d, both with caching enabled, both missed prompt p under the
\* same key, and both have returned a result.
BothMissed(c, d, p) ==
  /\ c # d
  /\ Succeeded(c) /\ Succeeded(d)
  /\ call[c].cached /\ call[d].cached
  /\ call[c].llmStringKey = call[d].llmStringKey
  /\ \E k \in DOMAIN call[c].prompts :
       call[c].prompts[k] = p /\ call[c].looked[k] = None
  /\ \E k \in DOMAIN call[d].prompts :
       call[d].prompts[k] = p /\ call[d].looked[k] = None

\* The generation lists call c returned for prompt p.
ReturnedFor(c, p) ==
  {call[c].result[1].generations[k] :
     k \in {j \in DOMAIN call[c].prompts : call[c].prompts[j] = p}}

\* C19: when two generate calls for the same prompt and signature overlap
\* and both miss the cache, both do the network work, each returns a
\* complete result for its own prompts, and the cache afterwards holds for
\* that prompt and signature a generation list one of the two produced.
C19_OverlappingMissesBothComplete ==
  \A c, d \in CallIds : \A p \in Prompts :
    BothMissed(c, d, p) =>
      /\ p \in SentPrompts(c) /\ p \in SentPrompts(d)
      /\ \A e \in {c, d} :
           /\ Len(call[e].result[1].generations) = Len(call[e].prompts)
           /\ \A k \in DOMAIN call[e].prompts :
                /\ call[e].result[1].generations[k] # None
                /\ ProducedFor(call[e].result[1].generations[k][1],
                               call[e].prompts[k], inst[call[e].inst].n)
      /\ lookup(cacheStore, p, call[c].llmStringKey)
           \in ReturnedFor(c, p) \cup ReturnedFor(d, p)

\* Two calls on different instances missed the same prompt and returned
\* different completions of it.
C19_Witness ==
  \E c, d \in CallIds : \E p \in Prompts :
    /\ BothMissed(c, d, p)
    /\ call[c].inst # call[d].inst
    /\ ReturnedFor(c, p) \cap ReturnedFor(d, p) = {}

\* C20: on an instance of a subclass of the simple LLM class with finite
\* concurrency, every generate call eventually completes, provided every
\* _call completes: the task that runs _generate never waits forever for
\* the tasks it queues on the same limiter.
C20_EveryGenerateCompletes ==
  \A c \in CallIds : Started(c) ~> Done(c)

\* The stream of the sub-batch in flight has ended; the promise that
\* rebuilds its choice is pending.
StreamEnded(c) == call[c].ended # None
ReconstructionPending(c) == call[c].pc \in {"stream", "closed"}

\* C21: once the stream of a streamed sub-batch has ended, with the
\* sentinel, with an error, or by closing without either, the promise that
\* rebuilds the choice is eventually settled (resolved or rejected), and
\* generate then completes or goes on to the next sub-batch: it does not
\* stay pending forever on a stream that has ended.
C21_EndedStreamSettles ==
  \A c \in CallIds :
    StreamEnded(c) ~> (~ReconstructionPending(c) /\ (Done(c) \/ ~StreamEnded(c)))

====
